---- MODULE Spec2Model ----
(***************************************************************************)
(* Sign-then-encrypt secure messaging of DevJSter/utilities.               *)
(*                                                                         *)
(* Two implementations of sendSecureMessage / receiveSecureMessage exist:  *)
(*   impl 1: src/signencryptdecrypt.ts        (keys are Uint8Array)        *)
(*   impl 2: src/encryptdecrypt.ts:1029-1219  (keys are hex strings)       *)
(*                                                                         *)
(* The libraries they call are modelled by what they do:                   *)
(*   - @noble/secp256k1: a prime-order group, here the order-11 subgroup   *)
(*     of Z_23^* generated by 2; ECDH is exponentiation in it.  A          *)
(*     signature is ideal: it records the digest and the signing scalar,   *)
(*     and verifies under exactly the matching public key and digest.      *)
(*   - sha256: injective (collision free), a tagged value.                 *)
(*   - CryptoJS.AES.encrypt(text, passphrase): OpenSSL salted format,      *)
(*     key and iv derived from (passphrase, salt), AES-CBC, PKCS7 padding, *)
(*     no MAC, Base64 text.  A ciphertext is the record of the key         *)
(*     material that produced it and of the plaintext blocks it decrypts   *)
(*     to under that key (the block cipher is a bijection for every key).  *)
(*     Decryption under any other key yields arbitrary bytes.              *)
(***************************************************************************)
EXTENDS Integers, Sequences, FiniteSets, TLC

(***************************************************************************)
(* Bounds of the model.                                                    *)
(***************************************************************************)
NumKeys == 3
MaxSalt == 0
MaxTime == 0
BlockSize == 3

(***************************************************************************)
(* The curve (scaled down): modulus, generator, group order.               *)
(***************************************************************************)
CurveP == 23
CurveG == 2
CurveN == 11

Impls == {1, 2}
Messages == {"", "hi"}
Salts == 0..MaxSalt
Times == 0..MaxTime

(***************************************************************************)
(* JavaScript values.  Every value is a record with a "ty" field.          *)
(***************************************************************************)
Undef == [ty |-> "undefined"]
Null == [ty |-> "null"]
None == [ty |-> "none"]
Str(s) == [ty |-> "string", s |-> s]
Ok(v) == [ok |-> TRUE, val |-> v]
Throw(e) == [ok |-> FALSE, err |-> e]

(***************************************************************************)
(* Group arithmetic of the curve library.                                  *)
(***************************************************************************)
RECURSIVE Pow(_, _)
Pow(b, e) == IF e = 0 THEN 1 ELSE (b * Pow(b, e - 1)) % CurveP

IsValidPrivateKey(d) == d \in 1..(CurveN - 1)
IsOnCurve(p) == \E e \in 1..(CurveN - 1) : Pow(CurveG, e) = p

getPublicKey(d) == Pow(CurveG, d)

PrivScalars == 1..NumKeys
PubPoints == {getPublicKey(d) : d \in PrivScalars}
InvalidPrivs == {0}
InvalidPubs == {5}

(***************************************************************************)
(* Key encodings.  impl 1 takes keys as bytes (here one byte, the number); *)
(* impl 2 takes them as hex strings (here two hex digits).                 *)
(***************************************************************************)
bytesToHex(n) == <<n \div 16, n % 16>>
hexToNumber(h) == 16 * h[1] + h[2]

KeyArg(impl, n) == IF impl = 1 THEN [bytes |-> n] ELSE [hex |-> bytesToHex(n)]

(* A hex string key as wallets print it, with the 0x prefix; the library's *)
(* hex decoder rejects it (x is no hex digit), so it decodes to no key.    *)
Prefixed(k) == k @@ [prefix |-> "0x"]
HasPrefix(k) == "prefix" \in DOMAIN k
NotAKey == 0 - 1

KeyNumber(k) ==
    IF "bytes" \in DOMAIN k THEN k.bytes
    ELSE IF HasPrefix(k) THEN NotAKey
    ELSE hexToNumber(k.hex)

(* How callers of impl 2 pass their keys: as they are or all 0x-prefixed. *)
KeyForms(i) == IF i = 1 THEN {FALSE} ELSE BOOLEAN
InForm(pre, k) == IF pre THEN Prefixed(k) ELSE k

PrivArgs(impl) == {KeyArg(impl, n) : n \in PrivScalars \cup InvalidPrivs}
PubArgs(impl) == {KeyArg(impl, n) : n \in PubPoints \cup InvalidPubs}

(***************************************************************************)
(* sha256 and TextEncoder.  encode(undefined) is the empty byte string.    *)
(***************************************************************************)
utf8Encode(v) ==
    IF v.ty = "undefined" THEN ""
    ELSE IF v.ty = "string" /\ "s" \in DOMAIN v THEN v.s
    ELSE "[other]"
sha256(bytes) == [sha |-> bytes]


(* A multiplication of the base point instead of the peer's point: the     *)
(* caller's own public point.                                              *)
getSharedSecretOwnPoint(privateKey, publicKey) ==
    LET d == KeyNumber(privateKey)
        p == KeyNumber(publicKey)
    IN  IF HasPrefix(privateKey) \/ HasPrefix(publicKey)
        THEN Throw("hex invalid")
        ELSE IF ~IsValidPrivateKey(d) THEN Throw("private key invalid")
        ELSE IF ~IsOnCurve(p) THEN Throw("bad point: not on curve")
        ELSE Ok([prefix |-> 2, x |-> Pow(CurveG, d)])

(***************************************************************************)
(* secp.getSharedSecret: throws on a private key out of range and on a     *)
(* public key that is no curve point; otherwise the (compressed) point     *)
(* pub^priv.                                                               *)
(***************************************************************************)
getSharedSecret(privateKey, publicKey) ==
    LET d == KeyNumber(privateKey)
        p == KeyNumber(publicKey)
    IN  IF HasPrefix(privateKey) \/ HasPrefix(publicKey)
        THEN Throw("hex invalid")
        ELSE IF ~IsValidPrivateKey(d) THEN Throw("private key invalid")
        ELSE IF ~IsOnCurve(p) THEN Throw("bad point: not on curve")
        ELSE Ok([prefix |-> 2, x |-> Pow(p, d)])

(* A slip in the slice bounds: the digest of an empty slice, the same for  *)
(* every pair of keys.                                                     *)
deriveECDHSharedKeyEmptySlice(privateKeyBytes, publicKeyBytes) ==
    LET sharedPoint == getSharedSecret(privateKeyBytes, publicKeyBytes)
    IN  IF ~sharedPoint.ok THEN sharedPoint
        ELSE Ok([ty |-> "string", hexOf |-> sha256(0)])

(***************************************************************************)
(* deriveECDHSharedKey: sha256 of the x-coordinate, as a hex string.       *)
(***************************************************************************)
deriveECDHSharedKey(privateKeyBytes, publicKeyBytes) ==
    LET sharedPoint == getSharedSecret(privateKeyBytes, publicKeyBytes)
    IN  IF ~sharedPoint.ok THEN sharedPoint
        ELSE Ok([ty |-> "string", hexOf |-> sha256(sharedPoint.val.x)])

(***************************************************************************)
(* Signatures.  secp.sign throws on an invalid private key; toCompactHex   *)
(* gives the 128-digit string; Signature.fromCompact throws on anything    *)
(* that is not such a string; secp.verify returns false on a public key    *)
(* that is no curve point.                                                 *)
(***************************************************************************)
secpSign(messageHash, privateKey) ==
    LET d == KeyNumber(privateKey)
    IN  IF HasPrefix(privateKey) THEN Throw("hex invalid")
        ELSE IF ~IsValidPrivateKey(d) THEN Throw("private key invalid")
        ELSE Ok([d |-> d, h |-> messageHash])

toCompactHex(signature) == [ty |-> "string", sig |-> signature]

fromCompact(signatureHex) ==
    IF signatureHex.ty = "string" /\ "sig" \in DOMAIN signatureHex
    THEN Ok(signatureHex.sig)
    ELSE Throw("signature must be 64 bytes")

(* A check of the digest only, whoever signed it. *)
secpVerifyAnySigner(signature, messageHash, publicKey) ==
    LET p == KeyNumber(publicKey)
    IN  /\ IsOnCurve(p)
        /\ signature.h = messageHash

secpVerify(signature, messageHash, publicKey) ==
    LET p == KeyNumber(publicKey)
    IN  /\ IsOnCurve(p)
        /\ signature.h = messageHash
        /\ getPublicKey(signature.d) = p

(* A slip: the message bytes signed, not their digest. *)
signMessageRawMessage(message, privateKeyBytes) ==
    LET messageHash == [raw |-> utf8Encode(message)]
        signature == secpSign(messageHash, privateKeyBytes)
    IN  IF ~signature.ok THEN signature
        ELSE Ok(toCompactHex(signature.val))

signMessage(message, privateKeyBytes) ==
    LET messageHash == sha256(utf8Encode(message))
        signature == secpSign(messageHash, privateKeyBytes)
    IN  IF ~signature.ok THEN signature
        ELSE Ok(toCompactHex(signature.val))

(* A slip: the signature checked against the message bytes, not their digest. *)
verifySignatureRawMessage(message, signatureHex, publicKey) ==
    LET messageHash == [raw |-> utf8Encode(message)]
        signature == fromCompact(signatureHex)
    IN  IF ~signature.ok THEN signature
        ELSE Ok(secpVerify(signature.val, messageHash, publicKey))

verifySignature(message, signatureHex, publicKey) ==
    LET messageHash == sha256(utf8Encode(message))
        signature == fromCompact(signatureHex)
    IN  IF ~signature.ok THEN signature
        ELSE Ok(secpVerify(signature.val, messageHash, publicKey))

(***************************************************************************)
(* Text.  A text is a sequence of tokens: a serialized field "k":v, the    *)
(* closing brace, a control byte (PKCS7 padding value n), the JSON text    *)
(* null, bytes that are text but no JSON ("txt"), and bytes that are no    *)
(* UTF-8 ("bin").                                                          *)
(***************************************************************************)
FieldTok(k, v) == [tok |-> "field", k |-> k, v |-> v]
CloseTok == [tok |-> "close"]
PadTok(n) == [tok |-> "pad", n |-> n]
NullTok == [tok |-> "null"]
TxtTok == [tok |-> "txt"]
BinTok == [tok |-> "bin"]

Max(a, b) == IF a >= b THEN a ELSE b

(***************************************************************************)
(* JSON.stringify of an object given as its list of <<key, value>> pairs:  *)
(* fields in order, undefined values omitted.  JSON.parse accepts the text *)
(* null and a complete object text; anything else is a SyntaxError.        *)
(***************************************************************************)
RECURSIVE JSONstringifyFields(_)
JSONstringifyFields(pairs) ==
    IF pairs = <<>> THEN <<>>
    ELSE LET kv == Head(pairs)
             rest == JSONstringifyFields(Tail(pairs))
         IN  IF kv[2].ty = "undefined" THEN rest
             ELSE <<FieldTok(kv[1], kv[2])>> \o rest

JSONstringify(pairs) == JSONstringifyFields(pairs) \o <<CloseTok>>

JSONparse(text) ==
    IF text = <<NullTok>> THEN Ok(Null)
    ELSE IF /\ Len(text) >= 1
            /\ text[Len(text)] = CloseTok
            /\ \A i \in 1..(Len(text) - 1) : text[i].tok = "field"
    THEN Ok([ty |-> "object", fields |-> SubSeq(text, 1, Len(text) - 1)])
    ELSE Throw("Unexpected token in JSON")

(* obj[k]: the last field of that name, undefined when there is none. *)
GetField(obj, k) ==
    LET idx == {i \in 1..Len(obj.fields) : obj.fields[i].k = k}
    IN  IF idx = {} THEN Undef
        ELSE obj.fields[CHOOSE i \in idx : \A j \in idx : j <= i].v

(***************************************************************************)
(* CryptoJS.AES with a passphrase.  Pkcs7.pad appends n bytes of value n;  *)
(* Pkcs7.unpad reads the last byte and drops that many bytes, unchecked.   *)
(***************************************************************************)
RECURSIVE Repeat(_, _)
Repeat(x, n) == IF n = 0 THEN <<>> ELSE <<x>> \o Repeat(x, n - 1)

Pkcs7Pad(data) ==
    LET n == BlockSize - (Len(data) % BlockSize)
    IN  data \o Repeat(PadTok(n), n)

LastByte(t) ==
    CASE t.tok = "pad" -> t.n
      [] t.tok = "field" -> 34
      [] t.tok = "close" -> 125
      [] t.tok = "null" -> 108
      [] t.tok = "txt" -> 120
      [] OTHER -> 200

Pkcs7Unpad(data) ==
    IF data = <<>> THEN <<>>
    ELSE SubSeq(data, 1, Max(0, Len(data) - LastByte(data[Len(data)])))

(* WordArray.toString(CryptoJS.enc.Utf8) *)
Utf8Stringify(data) ==
    IF \E i \in 1..Len(data) : data[i].tok = "bin"
    THEN Throw("Malformed UTF-8 data")
    ELSE Ok(data)

(* A key that comes from the salt in the header alone. *)
EvpKDFSaltOnly(passphrase, salt) == [salt |-> salt]

(* Key and iv come from (passphrase, salt); the salt travels in the header. *)
EvpKDF(passphrase, salt) == [pass |-> passphrase, salt |-> salt]

AESencrypt(text, passphrase, salt) ==
    [salt |-> salt, key |-> EvpKDF(passphrase, salt), data |-> Pkcs7Pad(text)]

(* CipherParams.toString(): Base64 of the OpenSSL form; the unused low   *)
(* bits of the last character before the = padding are written as 0.     *)
Base64Stringify(ct) == [ct |-> ct, slack |-> 0]
(* Base64.parse drops the unused bits, whatever they are. *)
Base64Parse(package) == package.ct

(* What bytes decrypted under a key other than the encrypting one can be, *)
(* after unpad and toString(Utf8).                                         *)
JunkTexts ==
    {Throw("Malformed UTF-8 data"), Ok(<<>>), Ok(<<TxtTok>>), Ok(<<NullTok>>),
     Ok(<<CloseTok>>)}

(* The possible values of AES.decrypt(package, secret).toString(Utf8). *)
AESdecryptToUtf8(package, passphrase) ==
    LET ct == Base64Parse(package)
    IN  IF EvpKDF(passphrase, ct.salt) = ct.key
        THEN {Utf8Stringify(Pkcs7Unpad(ct.data))}
        ELSE JunkTexts

(***************************************************************************)
(* State.                                                                  *)
(*   impl  which implementation is loaded                                  *)
(*   s     the sendSecureMessage call: position, arguments, locals         *)
(*   wire  the package between sender and receiver, and how it was made    *)
(*   r     the receiveSecureMessage call: position, arguments, locals      *)
(*   log   what the calls wrote to the console                             *)
(***************************************************************************)
VARIABLES impl, s, wire, r, log

vars == <<impl, s, wire, r, log>>

Idle == [pc |-> "idle"]

LogEntry(src, what, val) == [src |-> src, what |-> what, val |-> val]

(* console.log calls of the helpers: none in impl 1, the secret and the   *)
(* Signature object in impl 2.                                             *)
deriveLogs(i, src, secret) ==
    IF i = 2 THEN {LogEntry(src, "sharedSecret", secret)} ELSE {}
signatureLogs(i, src, sig) ==
    IF i = 2 THEN {LogEntry(src, "signature", sig)} ELSE {}
sendLogs(i, secret, signedPackage) ==
    IF i = 2 THEN {LogEntry("send", "sharedSecret", secret),
                   LogEntry("send", "signedPackage", [text |-> signedPackage])}
    ELSE {}
(* A debugging line left in: the parsed message printed before it is verified. *)
receiveParseLogsMessage(i, message) ==
    {LogEntry("receive", "message", message)}

(* receiveSecureMessage itself logs nothing after JSON.parse. *)
receiveParseLogs(i, message) == {}

(* The sender identity field: impl 1 writes from: hex(senderPublicKey),    *)
(* impl 2 writes senderPublicKey: senderPublicKey.                         *)
SenderField(i, senderPublicKey) ==
    IF i = 1
    THEN <<"from", [ty |-> "string", hex |-> bytesToHex(senderPublicKey.bytes)]>>
    ELSE <<"senderPublicKey", [ty |-> "string", hex |-> senderPublicKey.hex]>>

toISOString(now) == [ty |-> "string", iso |-> now]

(* an envelope that leaves the signature outside *)
signedPackageOfUnsigned(i, message, signature, now, senderPublicKey) ==
    JSONstringify(<< <<"message", message>>,
                     <<"timestamp", toISOString(now)>>,
                     SenderField(i, senderPublicKey) >>)

signedPackageOf(i, message, signature, now, senderPublicKey) ==
    JSONstringify(<< <<"message", message>>,
                     <<"signature", signature>>,
                     <<"timestamp", toISOString(now)>>,
                     SenderField(i, senderPublicKey) >>)

(* The public keys a caller passes as its own: the one of its private key, *)
(* or another party's.                                                     *)
SenderPubArgs(i, sk) ==
    {KeyArg(i, getPublicKey(KeyNumber(sk))), KeyArg(i, getPublicKey(NumKeys))}

(***************************************************************************)
(* sendSecureMessage.  It has no try/catch: an exception of a helper       *)
(* rejects the returned promise.                                           *)
(***************************************************************************)
SendCall ==
    /\ s.pc = "idle" /\ wire = None /\ r.pc = "idle"
    /\ \E m \in Messages, sk \in PrivArgs(impl), rp \in PubArgs(impl),
          pre \in KeyForms(impl) :
       \E sp \in SenderPubArgs(impl, sk) :
          s' = [pc |-> "called", message |-> Str(m),
                senderPrivateKey |-> InForm(pre, sk),
                senderPublicKey |-> InForm(pre, sp),
                receiverPublicKey |-> InForm(pre, rp)]
    /\ UNCHANGED <<impl, wire, r, log>>

(* Step 1: sign the message *)
SendSign ==
    /\ s.pc = "called"
    /\ LET sig == signMessage(s.message, s.senderPrivateKey)
       IN  IF sig.ok
           THEN /\ s' = [s EXCEPT !.pc = "signed"] @@ [signature |-> sig.val]
                /\ log' = log \cup signatureLogs(impl, "send", sig.val.sig)
           ELSE /\ s' = [s EXCEPT !.pc = "thrown"] @@ [error |-> sig.err]
                /\ log' = log
    /\ UNCHANGED <<impl, wire, r>>

(* Step 2: create the signed package *)
SendPackage ==
    /\ s.pc = "signed"
    /\ \E now \in Times :
          s' = [s EXCEPT !.pc = "packaged"] @@
               [signedPackage |->
                   signedPackageOf(impl, s.message, s.signature, now,
                                   s.senderPublicKey)]
    /\ UNCHANGED <<impl, wire, r, log>>

(* Step 3: derive the shared secret *)
SendDerive ==
    /\ s.pc = "packaged"
    /\ LET k == deriveECDHSharedKey(s.senderPrivateKey, s.receiverPublicKey)
       IN  IF k.ok
           THEN /\ s' = [s EXCEPT !.pc = "derived"] @@ [sharedSecret |-> k.val]
                /\ log' = log \cup deriveLogs(impl, "send", k.val)
                               \cup sendLogs(impl, k.val, s.signedPackage)
           ELSE /\ s' = [s EXCEPT !.pc = "thrown"] @@ [error |-> k.err]
                /\ log' = log
    /\ UNCHANGED <<impl, wire, r>>

(* Step 4: encrypt the entire signed package, return it *)
SendEncrypt ==
    /\ s.pc = "derived"
    /\ \E salt \in Salts :
          LET pkg == Base64Stringify(
                        AESencrypt(s.signedPackage, s.sharedSecret, salt))
          IN  /\ s' = [s EXCEPT !.pc = "done"] @@ [encryptedPackage |-> pkg]
              /\ wire' = [pkg |-> pkg, origin |-> "send", tamper |-> "none"]
    /\ UNCHANGED <<impl, r, log>>

(***************************************************************************)
(* The channel.  The package is a string that anyone on the channel can    *)
(* change before it is received.  Every change below is one that exists    *)
(* for the real cipher: AES is a bijection on blocks for a fixed key, so   *)
(* for every wanted content of the last plaintext block there is a last    *)
(* ciphertext block that decrypts to it.                                   *)
(***************************************************************************)
ForgedSender == KeyArg(impl, getPublicKey(NumKeys))

TamperToks ==
    {BinTok, PadTok(0), PadTok(BlockSize),
     FieldTok(SenderField(impl, ForgedSender)[1],
              SenderField(impl, ForgedSender)[2])}

(* one character of the Base64 text changed in its unused bits *)
TamperSlack ==
    /\ wire # None /\ wire.origin = "send" /\ wire.tamper = "none"
    /\ r.pc = "idle"
    /\ wire' = [wire EXCEPT !.pkg.slack = 1, !.tamper = "slack"]
    /\ UNCHANGED <<impl, s, r, log>>

(* a byte of the salt changed: another key and iv at the receiver *)
TamperSalt ==
    /\ wire # None /\ wire.origin = "send" /\ wire.tamper = "none"
    /\ r.pc = "idle"
    /\ wire' = [wire EXCEPT !.pkg.ct.salt = @ + 1, !.tamper = "salt"]
    /\ UNCHANGED <<impl, s, r, log>>

(* the last ciphertext block changed *)
TamperLastBlock ==
    /\ wire # None /\ wire.origin = "send" /\ wire.tamper = "none"
    /\ r.pc = "idle"
    /\ LET data == wire.pkg.ct.data
       IN  \E i \in (Len(data) - BlockSize + 1)..Len(data), t \in TamperToks :
              /\ data[i] # t
              /\ wire' = [wire EXCEPT !.pkg.ct.data[i] = t,
                                      !.tamper = "lastblock"]
    /\ UNCHANGED <<impl, s, r, log>>

(***************************************************************************)
(* Any other input of receive: a text that a holder of a shared secret     *)
(* encrypted.  Received under another key it is a string that is no        *)
(* ciphertext of the receiver's.                                           *)
(***************************************************************************)
CraftSigner == KeyArg(impl, 1)
CraftPeer == KeyArg(impl, getPublicKey(2))

CraftSignatures ==
    {Undef, Str("zz")} \cup
    {signMessage(Str(m), CraftSigner).val : m \in Messages}

CraftedTexts ==
    {JSONstringify(<< <<"message", m>>, <<"signature", sg>>,
                      <<"timestamp", ts>>,
                      SenderField(impl, KeyArg(impl, getPublicKey(1))) >>) :
        m \in {Undef, Str("hi")}, sg \in CraftSignatures,
        ts \in {Undef, toISOString(0)}}
    \cup {<<NullTok>>, <<CloseTok>>, <<TxtTok>>}

Craft ==
    /\ s.pc = "idle" /\ wire = None /\ r.pc = "idle"
    /\ \E text \in CraftedTexts :
          wire' = [pkg |-> Base64Stringify(
                       AESencrypt(text,
                           deriveECDHSharedKey(CraftSigner, CraftPeer).val, 0)),
                   origin |-> "craft", tamper |-> "none"]
    /\ UNCHANGED <<impl, s, r, log>>

(***************************************************************************)
(* receiveSecureMessage.  The whole body is inside try { } catch { }.      *)
(***************************************************************************)
SignatureFailed ==
    Str("Signature verification failed - message may be tampered or fake")

CaughtError(err) ==
    [ty |-> "string", prefix |-> "Decryption/Verification failed: ",
     detail |-> err]

(* A slip: the message returned whatever the verification said. *)
MakeResultLeaky(message, isValid, timestamp, from) ==
    [message |-> message,
     verified |-> isValid,
     timestamp |-> timestamp,
     from |-> from,
     error |-> IF isValid THEN Undef ELSE SignatureFailed]

(* the return of step 4 *)
MakeResult(message, isValid, timestamp, from) ==
    [message |-> IF isValid THEN message ELSE Null,
     verified |-> isValid,
     timestamp |-> timestamp,
     from |-> from,
     error |-> IF isValid THEN Undef ELSE SignatureFailed]

(* No catch block: the exception leaves the call. *)
Uncaught(rec, err) ==
    [pc |-> "thrown",
     encryptedPackage |-> rec.encryptedPackage,
     receiverPrivateKey |-> rec.receiverPrivateKey,
     senderPublicKey |-> rec.senderPublicKey,
     failedAt |-> rec.pc,
     error |-> err]

(* the catch block: the call returns a result, nothing is thrown on *)
Caught(rec, err) ==
    [pc |-> "returned",
     encryptedPackage |-> rec.encryptedPackage,
     receiverPrivateKey |-> rec.receiverPrivateKey,
     senderPublicKey |-> rec.senderPublicKey,
     failedAt |-> rec.pc,
     result |-> [message |-> Null, verified |-> FALSE,
                 timestamp |-> Str(""), from |-> Str(""),
                 error |-> CaughtError(err)]]

RecvCall ==
    /\ r.pc = "idle" /\ wire # None
    /\ s.pc \in {"idle", "done"}
    /\ \E rk \in PrivArgs(impl), sp \in PubArgs(impl),
          pre \in KeyForms(impl) :
          r' = [pc |-> "called", encryptedPackage |-> wire.pkg,
                receiverPrivateKey |-> InForm(pre, rk),
                senderPublicKey |-> InForm(pre, sp)]
    /\ UNCHANGED <<impl, s, wire, log>>

(* Step 1: derive the same ECDH shared secret *)
RecvDerive ==
    /\ r.pc = "called"
    /\ LET k == deriveECDHSharedKey(r.receiverPrivateKey, r.senderPublicKey)
       IN  IF k.ok
           THEN /\ r' = [r EXCEPT !.pc = "derived"] @@ [sharedSecret |-> k.val]
                /\ log' = log \cup deriveLogs(impl, "receive", k.val)
           ELSE /\ r' = Caught(r, k.err)
                /\ log' = log
    /\ UNCHANGED <<impl, s, wire>>

(* Step 2: decrypt the package *)
RecvDecrypt ==
    /\ r.pc = "derived"
    /\ \E t \in AESdecryptToUtf8(r.encryptedPackage, r.sharedSecret) :
          r' = IF ~t.ok THEN Caught(r, t.err)
               ELSE IF t.val = <<>>
               THEN Caught(r,
                  "Decryption failed - invalid shared secret or corrupted data")
               ELSE [r EXCEPT !.pc = "decrypted"] @@ [signedPackage |-> t.val]
    /\ UNCHANGED <<impl, s, wire, log>>

(* signedPackage kept in one module-level variable that send and receive  *)
(* both assign: receive parses whichever text was assigned last.          *)
RecvParseShared ==
    /\ r.pc = "decrypted"
    /\ LET o == JSONparse(IF "signedPackage" \in DOMAIN s
                          THEN s.signedPackage ELSE r.signedPackage)
       IN  IF ~o.ok
           THEN /\ r' = Caught(r, o.err)
                /\ log' = log
           ELSE IF o.val = Null
           THEN /\ r' = Caught(r, "Cannot destructure property of null")
                /\ log' = log
           ELSE /\ r' = [r EXCEPT !.pc = "parsed"] @@
                        [message |-> GetField(o.val, "message"),
                         signature |-> GetField(o.val, "signature"),
                         timestamp |-> GetField(o.val, "timestamp"),
                         from |-> GetField(o.val, "from")]
                /\ log' = log \cup
                       receiveParseLogs(impl, GetField(o.val, "message"))
    /\ UNCHANGED <<impl, s, wire>>

(* const { message, signature, timestamp, from } = JSON.parse(signedPackage) *)
RecvParse ==
    /\ r.pc = "decrypted"
    /\ LET o == JSONparse(r.signedPackage)
       IN  IF ~o.ok
           THEN /\ r' = Caught(r, o.err)
                /\ log' = log
           ELSE IF o.val = Null
           THEN /\ r' = Caught(r, "Cannot destructure property of null")
                /\ log' = log
           ELSE /\ r' = [r EXCEPT !.pc = "parsed"] @@
                        [message |-> GetField(o.val, "message"),
                         signature |-> GetField(o.val, "signature"),
                         timestamp |-> GetField(o.val, "timestamp"),
                         from |-> GetField(o.val, "from")]
                /\ log' = log \cup
                       receiveParseLogs(impl, GetField(o.val, "message"))
    /\ UNCHANGED <<impl, s, wire>>

(* Step 3: verify the signature *)
RecvVerify ==
    /\ r.pc = "parsed"
    /\ LET v == verifySignature(r.message, r.signature, r.senderPublicKey)
       IN  IF v.ok
           THEN /\ r' = [r EXCEPT !.pc = "verified"] @@ [isValid |-> v.val]
                /\ log' = log \cup
                       signatureLogs(impl, "receive", r.signature.sig)
           ELSE /\ r' = Caught(r, v.err)
                /\ log' = log
    /\ UNCHANGED <<impl, s, wire>>

(* Step 4: return the result *)
RecvReturn ==
    /\ r.pc = "verified"
    /\ r' = [r EXCEPT !.pc = "returned"] @@
            [result |-> MakeResult(r.message, r.isValid, r.timestamp, r.from)]
    /\ UNCHANGED <<impl, s, wire, log>>

(* A replay: the package that receive has accepted is handed to receive   *)
(* once more, with the same keys; previous is what the first call         *)
(* returned.                                                              *)
RecvAgain ==
    /\ r.pc = "returned" /\ "previous" \notin DOMAIN r
    /\ r.result.verified
    /\ r' = [pc |-> "called", encryptedPackage |-> r.encryptedPackage,
             receiverPrivateKey |-> r.receiverPrivateKey,
             senderPublicKey |-> r.senderPublicKey,
             previous |-> r.result]
    /\ UNCHANGED <<impl, s, wire, log>>

(* The calls are over; the next run starts afresh. *)
Reset ==
    /\ \/ r.pc \in {"returned", "thrown"}
       \/ s.pc = "thrown"
    /\ s' = Idle /\ r' = Idle /\ wire' = None /\ log' = {}
    /\ UNCHANGED impl

Init ==
    /\ impl \in Impls
    /\ s = Idle /\ r = Idle /\ wire = None /\ log = {}

Next ==
    \/ SendCall \/ SendSign \/ SendPackage \/ SendDerive \/ SendEncrypt
    \/ TamperSlack \/ TamperSalt \/ TamperLastBlock \/ Craft
    \/ RecvCall \/ RecvDerive \/ RecvDecrypt \/ RecvParse \/ RecvVerify
    \/ RecvReturn \/ RecvAgain
    \/ Reset

Spec == Init /\ [][Next]_vars

(***************************************************************************)
(* Concurrent calls.  The functions are async and keep everything in       *)
(* locals; the module state (secp.etc.hmacSha256Sync) is assigned once at  *)
(* load.  Here a send and a receive are in progress at the same time,      *)
(* their steps interleaved in every order, with the key pairs of two       *)
(* parties who send to and receive from each other; a call that has        *)
(* returned is followed by the next one.                                   *)
(***************************************************************************)
ConcParties == {1, 2}

ConcSendCall ==
    /\ s.pc = "idle"
    /\ \E m \in Messages, a \in ConcParties :
       \E bp \in {getPublicKey(b) : b \in ConcParties \ {a}} \cup InvalidPubs :
          s' = [pc |-> "called", message |-> Str(m),
                senderPrivateKey |-> KeyArg(impl, a),
                senderPublicKey |-> KeyArg(impl, getPublicKey(a)),
                receiverPublicKey |-> KeyArg(impl, bp)]
    /\ UNCHANGED <<impl, wire, r, log>>

ConcRecvCall ==
    /\ r.pc = "idle" /\ wire # None
    /\ \E b \in ConcParties : \E a \in ConcParties \ {b} :
          r' = [pc |-> "called", encryptedPackage |-> wire.pkg,
                receiverPrivateKey |-> KeyArg(impl, b),
                senderPublicKey |-> KeyArg(impl, getPublicKey(a))]
    /\ UNCHANGED <<impl, s, wire, log>>

(* the promise of send has settled; its caller may call again *)
ConcSendSettled ==
    /\ s.pc \in {"done", "thrown"}
    /\ s' = Idle
    /\ UNCHANGED <<impl, wire, r, log>>

(* the promise of receive has settled *)
ConcRecvSettled ==
    /\ r.pc = "returned"
    /\ r' = Idle
    /\ UNCHANGED <<impl, s, wire, log>>

ConcNext ==
    \/ ConcSendCall \/ SendSign \/ SendPackage \/ SendDerive \/ SendEncrypt
    \/ ConcRecvCall \/ RecvDerive \/ RecvDecrypt \/ RecvParse \/ RecvVerify
    \/ RecvReturn
    \/ ConcSendSettled \/ ConcRecvSettled

(* The implementation of signencryptdecrypt.ts, whose functions keep no log. *)
ConcInit == Init /\ impl = 1

ConcSpec == ConcInit /\ [][ConcNext]_vars

(***************************************************************************)
(* What a call returns when it runs alone, from its arguments only: the    *)
(* steps of sendSecureMessage and of receiveSecureMessage composed.        *)
(***************************************************************************)
SendAlone(i, message, senderPrivateKey, senderPublicKey, receiverPublicKey) ==
    LET signature == signMessage(message, senderPrivateKey)
        sharedSecret == deriveECDHSharedKey(senderPrivateKey, receiverPublicKey)
    IN  IF ~signature.ok THEN {signature}
        ELSE IF ~sharedSecret.ok THEN {sharedSecret}
        ELSE {Ok(Base64Stringify(AESencrypt(
                    signedPackageOf(i, message, signature.val, now,
                                    senderPublicKey),
                    sharedSecret.val, salt))) :
                 now \in Times, salt \in Salts}

ReceiveAloneFrom(rec, t) ==
    IF ~t.ok THEN Caught(rec, t.err).result
    ELSE IF t.val = <<>>
    THEN Caught(rec,
            "Decryption failed - invalid shared secret or corrupted data").result
    ELSE LET o == JSONparse(t.val)
         IN  IF ~o.ok THEN Caught(rec, o.err).result
             ELSE IF o.val = Null
             THEN Caught(rec, "Cannot destructure property of null").result
             ELSE LET message == GetField(o.val, "message")
                      v == verifySignature(message, GetField(o.val, "signature"),
                                           rec.senderPublicKey)
                  IN  IF ~v.ok THEN Caught(rec, v.err).result
                      ELSE MakeResult(message, v.val,
                                      GetField(o.val, "timestamp"),
                                      GetField(o.val, "from"))

ReceiveAlone(rec) ==
    LET sharedSecret == deriveECDHSharedKey(rec.receiverPrivateKey,
                                            rec.senderPublicKey)
    IN  IF ~sharedSecret.ok THEN {Caught(rec, sharedSecret.err).result}
        ELSE {ReceiveAloneFrom(rec, t) :
                 t \in AESdecryptToUtf8(rec.encryptedPackage, sharedSecret.val)}

(***************************************************************************)
(* Vocabulary of the properties.                                           *)
(***************************************************************************)
Returned == r.pc = "returned"

(* the package under receipt is the one send returned, unchanged *)
Untampered ==
    /\ wire # None /\ wire.origin = "send" /\ wire.tamper = "none"
    /\ s.pc = "done"

(* the package under receipt is the one send returned, changed on the way *)
Tampered ==
    /\ wire # None /\ wire.origin = "send" /\ wire.tamper # "none"
    /\ s.pc = "done"

(* send was called by A with A's own key pair *)
HonestSend ==
    KeyNumber(s.senderPublicKey) = getPublicKey(KeyNumber(s.senderPrivateKey))

(* receive is called by the B the package was sent to, with A's public key *)
IntendedReceiver ==
    /\ IsValidPrivateKey(KeyNumber(r.receiverPrivateKey))
    /\ getPublicKey(KeyNumber(r.receiverPrivateKey))
          = KeyNumber(s.receiverPublicKey)
    /\ r.senderPublicKey = s.senderPublicKey

(* receive is called by a C that is neither A nor B, with A's public key *)
ThirdReceiver ==
    /\ IsValidPrivateKey(KeyNumber(r.receiverPrivateKey))
    /\ getPublicKey(KeyNumber(r.receiverPrivateKey))
          \notin {KeyNumber(s.receiverPublicKey), KeyNumber(s.senderPublicKey)}
    /\ r.senderPublicKey = s.senderPublicKey

(* the catch block produced the result; failedAt is the step that threw *)
CaughtAt(step) ==
    /\ Returned /\ "failedAt" \in DOMAIN r /\ r.failedAt = step

(* the keys receive was given are malformed *)
MalformedKeys ==
    \/ ~IsValidPrivateKey(KeyNumber(r.receiverPrivateKey))
    \/ ~IsOnCurve(KeyNumber(r.senderPublicKey))

(* the receiver's key does not decrypt the package *)
Undecryptable ==
    /\ ~MalformedKeys
    /\ LET ct == Base64Parse(r.encryptedPackage)
       IN  EvpKDF(deriveECDHSharedKey(r.receiverPrivateKey,
                                      r.senderPublicKey).val, ct.salt)
              # ct.key

(* the envelope receive parsed carries no well-formed signature *)
MalformedSignature ==
    "signature" \in DOMAIN r /\ ~fromCompact(r.signature).ok

(***************************************************************************)
(* C1.  In every result of receive the message is present only if verified *)
(* is true: an unverified result carries no message.                       *)
(***************************************************************************)
C1_MessageOnlyIfVerified ==
    Returned => (~r.result.verified => r.result.message = Null)

(* receive decrypted and parsed an envelope with a message, the signature  *)
(* did not verify, and the result withholds the message                    *)
C1_Witness ==
    /\ Returned /\ "isValid" \in DOMAIN r /\ ~r.isValid
    /\ r.message = Str("hi")
    /\ r.result.message = Null

(***************************************************************************)
(* C2.  Round trip: what A sends to B with its own key pair, B receives    *)
(* with verified = true and the message A sent, the empty message too.     *)
(***************************************************************************)
C2_RoundTrip ==
    (Returned /\ Untampered /\ HonestSend /\ IntendedReceiver)
        => (r.result.verified /\ r.result.message = s.message)

(* B has received A's empty message *)
C2_Witness ==
    /\ Returned /\ Untampered /\ HonestSend /\ IntendedReceiver
    /\ s.message = Str("")
    /\ r.result.verified /\ r.result.message = Str("")

(***************************************************************************)
(* C3.  Tamper detection: when B receives, with A's public key, a package  *)
(* that differs from the one send returned, verified is false.             *)
(***************************************************************************)
C3_TamperDetected ==
    (/\ Returned /\ Tampered /\ HonestSend /\ IntendedReceiver
     /\ r.encryptedPackage # s.encryptedPackage)
        => ~r.result.verified

(***************************************************************************)
(* C4.  Decrypt-then-verify: receive neither returns nor logs the          *)
(* envelope's message before the verification has returned true.           *)
(***************************************************************************)
C4_VerifyBeforeExpose ==
    LET verifiedTrue == "isValid" \in DOMAIN r /\ r.isValid
    IN  /\ ("result" \in DOMAIN r /\ r.result.message # Null) => verifiedTrue
        /\ \A e \in log :
              (e.src = "receive" /\ e.what = "message") => verifiedTrue

(* receive holds a parsed, not yet verified message, and has logged *)
C4_Witness ==
    /\ r.pc = "parsed" /\ r.message = Str("hi")
    /\ \E e \in log : e.src = "receive"

C6_WrongKeyRejected ==
    (Returned /\ Untampered /\ HonestSend /\ ThirdReceiver)
        => ~r.result.verified

(* C has tried to receive what A sent to another B *)
C6_Witness ==
    /\ Returned /\ Untampered /\ HonestSend /\ ThirdReceiver
    /\ KeyNumber(s.receiverPublicKey) # KeyNumber(s.senderPublicKey)
    /\ ~r.result.verified

(***************************************************************************)
(* C7.  verifySignature returns false and never throws.  (In receive it is *)
(* the only call of step 3, so an exception caught at that step is its.)   *)
(***************************************************************************)
C7_VerifyNeverThrows == ~CaughtAt("parsed")

(***************************************************************************)
(* C8.  When B receives what A sent, the result is verified and its from   *)
(* is the encoding of A's public key that send wrote into the envelope, in *)
(* each implementation.                                                    *)
(***************************************************************************)
C8_FromIsSender ==
    (Returned /\ Untampered /\ HonestSend /\ IntendedReceiver)
        => /\ r.result.verified
           /\ r.result.from = SenderField(impl, s.senderPublicKey)[2]

(***************************************************************************)
(* C9.  A decrypted text that is no well-formed envelope (a required field *)
(* is missing) is reported with another error than the one reported for a  *)
(* well-formed envelope whose signature does not verify.                   *)
(***************************************************************************)
RequiredFields == {"message", "signature", "timestamp", SenderField(impl, ForgedSender)[1]}

HasField(text, k) == \E i \in 1..Len(text) : text[i].tok = "field" /\ text[i].k = k

MalformedEnvelope ==
    /\ "signedPackage" \in DOMAIN r
    /\ \E k \in RequiredFields : ~HasField(r.signedPackage, k)

C9_DistinctErrorKinds ==
    (Returned /\ MalformedEnvelope) => r.result.error # SignatureFailed

(***************************************************************************)
(* C10.  Authenticated encryption: a package whose ciphertext was changed  *)
(* after send fails in the decryption step; receive never parses or        *)
(* verifies a text decrypted from it.                                      *)
(***************************************************************************)
C10_CiphertextAuthenticated ==
    (/\ Tampered /\ wire.tamper \in {"lastblock", "salt"}
     /\ r.pc # "idle" /\ ~MalformedKeys)
        => /\ r.pc \in {"called", "derived", "returned"}
           /\ Returned => CaughtAt("derived")

(***************************************************************************)
(* C11.  Sign-then-encrypt: the package send returns is the encryption,    *)
(* as one unit, of the envelope holding the message, the signature send    *)
(* computed over the plaintext message beforehand, the timestamp and the   *)
(* sender identity; nothing but the salt is outside the ciphertext, and    *)
(* nothing is on the channel before the encryption.                        *)
(***************************************************************************)
C11_SignThenEncrypt ==
    /\ s.pc \in {"called", "signed", "packaged", "derived"} => wire = None
    /\ "encryptedPackage" \in DOMAIN s =>
          LET ct == Base64Parse(s.encryptedPackage)
              env == JSONparse(Pkcs7Unpad(ct.data))
              sender == SenderField(impl, s.senderPublicKey)
          IN  /\ "signature" \in DOMAIN s
              /\ s.signature = signMessage(s.message, s.senderPrivateKey).val
              /\ env.ok
              /\ GetField(env.val, "message") = s.message
              /\ GetField(env.val, "signature") = s.signature
              /\ GetField(env.val, "timestamp") \in {toISOString(t) : t \in Times}
              /\ GetField(env.val, sender[1]) = sender[2]
              /\ ct.key = EvpKDF(s.sharedSecret, ct.salt)
              /\ DOMAIN s.encryptedPackage = {"ct", "slack"}
              /\ DOMAIN ct = {"salt", "key", "data"}
              /\ ct.salt \in Salts /\ s.encryptedPackage.slack = 0

(* send has returned the package of a non-empty message *)
C11_Witness ==
    /\ s.pc = "done" /\ s.message = Str("hi")
    /\ wire # None /\ wire.pkg = s.encryptedPackage

(***************************************************************************)
(* C12.  In every result of receive the error is set if and only if        *)
(* verified is false: a verified result carries a message and no error,    *)
(* an unverified result carries an error and no message.                   *)
(***************************************************************************)
C12_ErrorIffUnverified ==
    Returned =>
        /\ r.result.error # Undef <=> ~r.result.verified
        /\ r.result.verified => r.result.message.ty = "string"
        /\ ~r.result.verified => r.result.message = Null

(***************************************************************************)
(* C13.  Hex keys are accepted with and without the 0x prefix: what A      *)
(* sends with unprefixed keys, B receives verified when it passes the      *)
(* same keys 0x-prefixed.                                                  *)
(***************************************************************************)
IntendedReceiverPrefixed ==
    /\ HasPrefix(r.receiverPrivateKey) /\ HasPrefix(r.senderPublicKey)
    /\ getPublicKey(hexToNumber(r.receiverPrivateKey.hex))
          = KeyNumber(s.receiverPublicKey)
    /\ r.senderPublicKey = Prefixed(s.senderPublicKey)

C13_PrefixOptional ==
    (Returned /\ Untampered /\ HonestSend /\ IntendedReceiverPrefixed)
        => (r.result.verified /\ r.result.message = s.message)

(***************************************************************************)
(* C14.  The log never holds key material: no private key, no derived      *)
(* shared secret, no unencrypted signed envelope.                          *)
(***************************************************************************)
C14_NoKeyMaterialLogged ==
    \A e \in log :
        /\ e.what \notin {"privateKey", "sharedSecret", "signedPackage"}
        /\ "sharedSecret" \in DOMAIN s => e.val # s.sharedSecret
        /\ "sharedSecret" \in DOMAIN r => e.val # r.sharedSecret

(***************************************************************************)
(* C15.  ECDH symmetry: for any two valid key pairs A and B,               *)
(* derive(A.priv, B.pub) = derive(B.priv, A.pub); the sender and the       *)
(* intended receiver hold the same shared secret.                          *)
(***************************************************************************)
C15_ECDHSymmetry ==
    (/\ s.pc \in {"derived", "done"} /\ r.pc # "idle"
     /\ HonestSend /\ IntendedReceiver)
        => /\ ~CaughtAt("called")
           /\ "sharedSecret" \in DOMAIN r => r.sharedSecret = s.sharedSecret

(* A and B, two different parties, have both derived the secret *)
C15_Witness ==
    /\ "sharedSecret" \in DOMAIN s /\ "sharedSecret" \in DOMAIN r
    /\ HonestSend /\ IntendedReceiver
    /\ KeyNumber(s.senderPublicKey) # KeyNumber(s.receiverPublicKey)
    /\ r.sharedSecret = s.sharedSecret

(***************************************************************************)
(* C16.  For every message m, the empty one too, and every valid key pair  *)
(* (sk, pk): verify(m, sign(m, sk), pk) is true; receive finds valid every *)
(* signature that the holder of the sender's key made of the message.      *)
(***************************************************************************)
C16_SignThenVerify ==
    r.pc \in {"verified", "returned"} /\ "signature" \in DOMAIN r =>
       \A d \in PrivScalars :
          (/\ r.senderPublicKey = KeyArg(impl, getPublicKey(d))
           /\ r.message.ty = "string"
           /\ r.signature = signMessage(r.message, KeyArg(impl, d)).val)
              => "isValid" \in DOMAIN r /\ r.isValid

(* receive has verified the sender's signature of the empty message *)
C16_Witness ==
    /\ r.pc = "verified" /\ r.message = Str("")
    /\ \E d \in PrivScalars :
          /\ r.senderPublicKey = KeyArg(impl, getPublicKey(d))
          /\ r.signature = signMessage(r.message, KeyArg(impl, d)).val
    /\ r.isValid

(***************************************************************************)
(* C17.  Concurrent calls are safe: however the steps of a send and of a   *)
(* receive interleave, calls with the same key pair included, each call    *)
(* returns a result it returns when run alone on its arguments.            *)
(***************************************************************************)
C17_ConcurrentCallsIndependent ==
    /\ r.pc = "returned" => r.result \in ReceiveAlone(r)
    /\ s.pc = "done" =>
          Ok(s.encryptedPackage) \in
             SendAlone(impl, s.message, s.senderPrivateKey,
                       s.senderPublicKey, s.receiverPublicKey)
    /\ s.pc = "thrown" =>
          Throw(s.error) \in
             SendAlone(impl, s.message, s.senderPrivateKey,
                       s.senderPublicKey, s.receiverPublicKey)

(* a receive has returned a verified message while a send that uses the    *)
(* receiver's key pair is between its steps                                *)
C17_Witness ==
    /\ r.pc = "returned" /\ r.result.verified
    /\ s.pc \in {"signed", "packaged", "derived"}
    /\ s.senderPrivateKey = r.receiverPrivateKey
    /\ r.result \in ReceiveAlone(r)

(***************************************************************************)
(* C18.  Replay protection: a package that receive has accepted once is    *)
(* not accepted again; its second receive does not return verified = true. *)
(***************************************************************************)
C18_ReplayRejected ==
    (Returned /\ "previous" \in DOMAIN r /\ r.previous.verified)
        => ~r.result.verified

(***************************************************************************)
(* C19.  Forward secrecy: who learns a long-term private key of A or of B  *)
(* after A sent a package to B, and uses it with the other party's public  *)
(* key, does not obtain the plaintext of that package.                     *)
(***************************************************************************)
DisclosedKeyHolder ==
    \/ /\ r.receiverPrivateKey = s.senderPrivateKey
       /\ r.senderPublicKey = s.receiverPublicKey
    \/ /\ IsValidPrivateKey(KeyNumber(r.receiverPrivateKey))
       /\ getPublicKey(KeyNumber(r.receiverPrivateKey))
             = KeyNumber(s.receiverPublicKey)
       /\ r.senderPublicKey = s.senderPublicKey

C19_ForwardSecrecy ==
    (/\ Untampered /\ HonestSend
     /\ KeyNumber(s.senderPublicKey) # KeyNumber(s.receiverPublicKey)
     /\ r.pc # "idle" /\ r.encryptedPackage = s.encryptedPackage
     /\ DisclosedKeyHolder)
        => /\ "sharedSecret" \in DOMAIN r => r.sharedSecret # s.sharedSecret
           /\ "signedPackage" \in DOMAIN r
                 => r.signedPackage # s.signedPackage

(***************************************************************************)
(* C20.  Authenticity: when receive, given S's public key, returns         *)
(* verified = true with message m, the envelope holds the signature that   *)
(* signing m with S's private key gives; packages crafted with other keys  *)
(* or changed on the channel are accepted only with messages S signed.     *)
(***************************************************************************)
C20_Authenticity ==
    (Returned /\ r.result.verified) =>
        \E d \in 1..(CurveN - 1) :
            /\ getPublicKey(d) = KeyNumber(r.senderPublicKey)
            /\ r.signature = signMessage(r.result.message, KeyArg(impl, d)).val

(* a package changed on the channel was accepted, with a message S signed *)
C20_Witness ==
    /\ Returned /\ r.result.verified /\ r.result.message = Str("hi")
    /\ Tampered /\ wire.tamper = "lastblock"
    /\ r.encryptedPackage = wire.pkg
    /\ r.signature = signMessage(r.result.message, s.senderPrivateKey).val

(***************************************************************************)
(* main.js: encrypt and decrypt with node:crypto, ECDH and AES-256-GCM.    *)
(* Keys are PEM texts; createPrivateKey and createPublicKey throw on a     *)
(* text that holds no key, createPublicKey derives the public key from a   *)
(* private one.  The GCM ciphertext is the plaintext under the keystream   *)
(* of (key, iv); the tag authenticates (key, iv, ciphertext).              *)
(* In the specification of main.js the variables hold                      *)
(*   s     the last encrypt call: arguments, random iv, outcome            *)
(*   wire  the payload on its way to decrypt                               *)
(*   r     the last decrypt call: arguments, payload, outcome              *)
(***************************************************************************)
Pem(kind, n) == [ty |-> "pem", kind |-> kind, n |-> n]
PrivPems == {Pem("private", n) : n \in PrivScalars \cup InvalidPrivs}
PubPems == {Pem("public", n) : n \in PubPoints \cup InvalidPubs}

createPrivateKey(pem) ==
    IF pem.kind = "private" /\ IsValidPrivateKey(pem.n)
    THEN Ok(pem.n) ELSE Throw("ERR_OSSL_UNSUPPORTED")

createPublicKey(pem) ==
    IF pem.kind = "public" /\ IsOnCurve(pem.n) THEN Ok(pem.n)
    ELSE IF pem.kind = "private" /\ IsValidPrivateKey(pem.n)
    THEN Ok(getPublicKey(pem.n))
    ELSE Throw("ERR_OSSL_UNSUPPORTED")

(* A secret made of the caller's key and the base point only. *)
diffieHellmanBasePoint(privateKey, publicKey) == Pow(CurveG, privateKey)

diffieHellman(privateKey, publicKey) == Pow(publicKey, privateKey)

(* Buffer.toString('base64') and Buffer.from(text, 'base64') *)
toBase64(bytes) == [ty |-> "base64", of |-> bytes]
fromBase64(text) == text.of

(* decoding of bytes to a string *)
utf8Decode(bytes) == Str(bytes)

GcmCipher(key, iv, data) == [ks |-> <<key, iv>>, data |-> data]
GcmTag(key, iv, ct) == [mac |-> <<key, iv, ct>>]

(* encrypt(privKeyPem, pubKeyPem, message); iv is what randomBytes gave *)
encrypt(privKeyPem, pubKeyPem, message, iv) ==
    LET privKey == createPrivateKey(privKeyPem)
        pubKey == createPublicKey(pubKeyPem)
    IN  IF ~privKey.ok THEN privKey
        ELSE IF ~pubKey.ok THEN pubKey
        ELSE LET secret == diffieHellman(privKey.val, pubKey.val)
                 key == sha256(secret)
                 ct == GcmCipher(key, iv, utf8Encode(message))
             IN  Ok([iv |-> toBase64(iv),
                     tag |-> toBase64(GcmTag(key, iv, ct)),
                     encrypted |-> toBase64(ct)])

(* decrypt(privKeyPem, pubKeyPem, {iv, tag, encrypted}): final() throws    *)
(* when the tag is not the one of (key, iv, ciphertext).                   *)
decrypt(privKeyPem, pubKeyPem, payload) ==
    LET privKey == createPrivateKey(privKeyPem)
        pubKey == createPublicKey(pubKeyPem)
    IN  IF ~privKey.ok THEN privKey
        ELSE IF ~pubKey.ok THEN pubKey
        ELSE LET secret == diffieHellman(privKey.val, pubKey.val)
                 key == sha256(secret)
                 iv == fromBase64(payload.iv)
                 ct == fromBase64(payload.encrypted)
             IN  IF fromBase64(payload.tag) # GcmTag(key, iv, ct)
                 THEN Throw("Unsupported state or unable to authenticate data")
                 ELSE Ok(utf8Decode(ct.data))

GcmEncryptCall ==
    /\ s.pc = "idle"
    /\ \E privKeyPem \in PrivPems, pubKeyPem \in PubPems,
          m \in Messages, iv \in Salts :
          LET res == encrypt(privKeyPem, pubKeyPem, Str(m), iv)
          IN  /\ s' = [pc |-> "encrypted", privKeyPem |-> privKeyPem,
                       pubKeyPem |-> pubKeyPem, message |-> Str(m),
                       result |-> res]
              /\ wire' = IF res.ok THEN res.val ELSE None
    /\ UNCHANGED <<impl, r, log>>

(* The payload is changed on its way: another iv, or the ciphertext of     *)
(* another text under the same keystream (bits flipped).                   *)
GcmTamper ==
    /\ wire # None /\ r.pc = "idle"
    /\ wire = s.result.val
    /\ \/ wire' = [wire EXCEPT !.iv = toBase64(fromBase64(@) + 1)]
       \/ \E m \in Messages :
             /\ m # fromBase64(wire.encrypted).data
             /\ wire' = [wire EXCEPT !.encrypted =
                            toBase64([fromBase64(@) EXCEPT !.data = m])]
    /\ UNCHANGED <<impl, s, r, log>>

GcmDecryptCall ==
    /\ wire # None /\ r.pc = "idle"
    /\ \E privKeyPem \in PrivPems, pubKeyPem \in PubPems :
          r' = [pc |-> "decrypted", privKeyPem |-> privKeyPem,
                pubKeyPem |-> pubKeyPem, payload |-> wire,
                result |-> decrypt(privKeyPem, pubKeyPem, wire)]
    /\ UNCHANGED <<impl, s, wire, log>>

GcmReset ==
    /\ \/ r.pc = "decrypted"
       \/ s.pc = "encrypted" /\ ~s.result.ok
    /\ s' = Idle /\ r' = Idle /\ wire' = None
    /\ UNCHANGED <<impl, log>>

(* main.js stands alone and writes nothing to the console. *)
GcmInit == Init /\ impl = 1

GcmNext == GcmEncryptCall \/ GcmTamper \/ GcmDecryptCall \/ GcmReset

GcmSpec == GcmInit /\ [][GcmNext]_vars

(***************************************************************************)
(* encryptdecrypt.ts, lines 10-49: encryptValue and decryptValue.  Public  *)
(* keys are strings, here sequences of characters; the AES passphrase is   *)
(* the hex digest of their concatenation.  CryptoJS draws the salt from    *)
(* WordArray.random, which throws where no secure random source exists.    *)
(* In the specification of the pair the variables hold                     *)
(*   s     the last encryptValue call: arguments and outcome               *)
(*   wire  the string that is given to decryptValue next                   *)
(*   r     the last decryptValue call: arguments and outcome               *)
(***************************************************************************)
ValueKeys == {<<>>, <<"a">>, <<"b">>, <<"a", "b">>}
ValueTexts == {JSONstringify(<<<<"text", Str(m)>>>>) : m \in Messages}
RandomSources ==
    {Ok(n) : n \in Salts}
       \cup {Throw("Native crypto module could not be used")}

deriveSharedKey(senderPublicKey, receiverPublicKey) ==
    LET combinedKeys == senderPublicKey \o receiverPublicKey
    IN  sha256(combinedKeys)

encryptValue(message, senderPublicKey, receiverPublicKey, random) ==
    LET sharedKey == deriveSharedKey(senderPublicKey, receiverPublicKey)
    IN  IF ~random.ok THEN random
        ELSE Ok(Base64Stringify(AESencrypt(message, sharedKey, random.val)))

(* The outcomes decryptValue can have: the text, or what the bytes under   *)
(* another key come to.                                                    *)
decryptValue(ciphertext, senderPublicKey, receiverPublicKey) ==
    LET sharedKey == deriveSharedKey(senderPublicKey, receiverPublicKey)
    IN  AESdecryptToUtf8(ciphertext, sharedKey)

(* base64.encode of a text that no encryptValue call made: no Salted__     *)
(* header, bytes that are the ciphertext of nothing.                       *)
BadCiphertext ==
    Base64Stringify([salt |-> 0, key |-> None, data |-> <<TxtTok>>])

ValEncrypt ==
    /\ s.pc = "idle"
    /\ \E message \in ValueTexts, senderPublicKey \in ValueKeys,
          receiverPublicKey \in ValueKeys, random \in RandomSources :
          LET res == encryptValue(message, senderPublicKey,
                                  receiverPublicKey, random)
          IN  /\ s' = [pc |-> "encrypted", message |-> message,
                       senderPublicKey |-> senderPublicKey,
                       receiverPublicKey |-> receiverPublicKey,
                       result |-> res]
              /\ wire' = IF res.ok THEN res.val ELSE None
    /\ UNCHANGED <<impl, r, log>>

ValBadInput ==
    /\ s.pc = "encrypted" /\ s.result.ok /\ r.pc = "idle"
    /\ wire = s.result.val
    /\ wire' = BadCiphertext
    /\ UNCHANGED <<impl, s, r, log>>

ValDecrypt ==
    /\ wire # None /\ r.pc = "idle"
    /\ \E senderPublicKey \in ValueKeys, receiverPublicKey \in ValueKeys :
          \E res \in decryptValue(wire, senderPublicKey, receiverPublicKey) :
             r' = [pc |-> "decrypted", ciphertext |-> wire,
                   senderPublicKey |-> senderPublicKey,
                   receiverPublicKey |-> receiverPublicKey,
                   result |-> res]
    /\ UNCHANGED <<impl, s, wire, log>>

ValReset ==
    /\ \/ r.pc = "decrypted"
       \/ s.pc = "encrypted" /\ ~s.result.ok
    /\ s' = Idle /\ r' = Idle /\ wire' = None
    /\ UNCHANGED <<impl, log>>

ValInit == Init /\ impl = 2

ValNext == ValEncrypt \/ ValBadInput \/ ValDecrypt \/ ValReset

ValSpec == ValInit /\ [][ValNext]_vars

(***************************************************************************)
(* meow.js: sendMessage of the chat screen.  Strings are sequences of      *)
(* characters.  In the specification of the chat the variables hold        *)
(*   s     the screen: message input, chat lines, own and peer public key, *)
(*         state of the data channel ("null" when there is none)           *)
(*   wire  what dataChannel.send was given: the last string and how many   *)
(*   r     a decryptValue call of a party that reads the channel           *)
(*   log   console and Alert output of the last sendMessage call           *)
(***************************************************************************)
MaxChat == 2

(* a key that has not arrived is the empty string *)
OwnKeys == {<<>>, <<"a">>}
PeerKeys == {<<>>, <<"b">>}
ChatKeys == {<<"a">>, <<"b">>}
ChatInputs == {<<>>, <<" ">>, <<" ", "h", " ">>}
ChannelStates == {"null", "connecting", "open"}

Num(n) == [ty |-> "number", n |-> n]

RECURSIVE trimStart(_)
trimStart(text) ==
    IF text # <<>> /\ Head(text) = " " THEN trimStart(Tail(text)) ELSE text

RECURSIVE trimEnd(_)
trimEnd(text) ==
    IF text # <<>> /\ text[Len(text)] = " "
    THEN trimEnd(SubSeq(text, 1, Len(text) - 1)) ELSE text

trim(text) == trimEnd(trimStart(text))

(* `You: ${messageToSend}` *)
YouLine(messageToSend) == <<"You: ">> \o messageToSend

NothingSent == [sent |-> FALSE]
Sent(text) == [sent |-> TRUE, text |-> text]

(* lines 17-76: the object that is sent *)
messageObjectOf(st, messageToSend, now, random) ==
    LET messageToEncrypt ==
            JSONstringify(<< <<"text", Str(messageToSend)>>,
                             <<"timestamp", Num(now)>> >>)
        encryptedPayload ==
            encryptValue(messageToEncrypt, st.publicKey,
                         st.sendersPublicKey, random)
        unencrypted == << <<"text", Str(messageToSend)>>,
                          <<"publicKey", Str(st.publicKey)>> >>
    IN  IF st.sendersPublicKey # <<>> /\ st.publicKey # <<>>
        THEN IF encryptedPayload.ok
             THEN << <<"publicKey", Str(st.publicKey)>>,
                     <<"encryptedPayload",
                       [ty |-> "string", b64 |-> encryptedPayload.val]>> >>
             ELSE unencrypted
        ELSE unencrypted

(* console output of lines 17-76 *)
encryptLogs(st, messageToSend, now, random) ==
    IF st.sendersPublicKey # <<>> /\ st.publicKey # <<>>
    THEN {LogEntry("sendMessage", "Message to encrypt",
                   Str(messageToSend))}
         \cup (IF random.ok THEN {}
               ELSE {LogEntry("sendMessage", "Encryption failed", Null)})
    ELSE {LogEntry("sendMessage", "Missing keys for encryption", Null)}

(* the chat line is written before the string is given to the channel *)
sendMessageAppendFirst(st, now, random, sendThrows) ==
    LET messageToSend == trim(st.message)
    IN  IF st.channel = "open" /\ messageToSend # <<>>
        THEN [message |-> <<>>,
              chat |-> Append(st.chat, YouLine(messageToSend)),
              out |-> IF sendThrows THEN NothingSent
                      ELSE Sent(JSONstringify(
                              messageObjectOf(st, messageToSend, now, random))),
              console |-> encryptLogs(st, messageToSend, now, random)]
        ELSE [message |-> st.message, chat |-> st.chat, out |-> NothingSent,
              console |-> {LogEntry("sendMessage", "Alert",
                                    Str(<<"Cannot send message">>))}]

(* sendMessage, lines 3-107: the new input and chat, what the channel got, *)
(* and the console and Alert output                                         *)
sendMessage(st, now, random, sendThrows) ==
    LET messageToSend == trim(st.message)
    IN  IF st.channel # "null" /\ st.channel = "open" /\ messageToSend # <<>>
        THEN LET messageString ==
                     JSONstringify(
                         messageObjectOf(st, messageToSend, now, random))
                 console == encryptLogs(st, messageToSend, now, random)
             IN  IF sendThrows
                 THEN [message |-> st.message, chat |-> st.chat,
                       out |-> NothingSent,
                       console |-> console \cup
                           {LogEntry("sendMessage", "Alert",
                                     Str(<<"Failed to send message">>))}]
                 ELSE [message |-> <<>>,
                       chat |-> Append(st.chat, YouLine(messageToSend)),
                       out |-> Sent(messageString),
                       console |-> console]
        ELSE [message |-> st.message, chat |-> st.chat, out |-> NothingSent,
              console |-> {LogEntry("sendMessage", "Alert",
                                    Str(<<"Cannot send message">>))}]

(* the user types, the key exchange delivers keys, the channel changes *)
SetMessage ==
    /\ r.pc = "idle"
    /\ \E text \in ChatInputs : s' = [s EXCEPT !.message = text]
    /\ s' # s
    /\ UNCHANGED <<impl, wire, r, log>>

SetKeys ==
    /\ r.pc = "idle"
    /\ \E publicKey \in OwnKeys, sendersPublicKey \in PeerKeys :
          s' = [s EXCEPT !.publicKey = publicKey,
                         !.sendersPublicKey = sendersPublicKey]
    /\ s' # s
    /\ UNCHANGED <<impl, wire, r, log>>

ChannelChange ==
    /\ r.pc = "idle"
    /\ \E c \in ChannelStates : s' = [s EXCEPT !.channel = c]
    /\ s' # s
    /\ UNCHANGED <<impl, wire, r, log>>

SendMessage ==
    /\ r.pc = "idle"
    /\ \E now \in Times, random \in RandomSources, sendThrows \in BOOLEAN :
          LET res == sendMessage(s, now, random, sendThrows)
          IN  /\ Len(res.chat) <= MaxChat
              /\ s' = [s EXCEPT !.message = res.message, !.chat = res.chat]
              /\ wire' = IF res.out.sent
                         THEN [text |-> res.out.text, count |-> wire.count + 1]
                         ELSE wire
              /\ log' = res.console
    /\ UNCHANGED <<impl, r>>

(* A party that reads the channel takes the object apart and calls         *)
(* decryptValue with the public key in it and a public key it knows.       *)
Observe ==
    /\ r.pc = "idle" /\ wire.count > 0
    /\ LET obj == JSONparse(wire.text).val
           payload == GetField(obj, "encryptedPayload")
       IN  /\ payload # Undef
           /\ \E peer \in ChatKeys :
              \E res \in decryptValue(payload.b64,
                                      GetField(obj, "publicKey").s, peer) :
                 r' = [pc |-> "decrypted", ciphertext |-> payload.b64,
                       senderPublicKey |-> GetField(obj, "publicKey").s,
                       receiverPublicKey |-> peer, result |-> res]
    /\ UNCHANGED <<impl, s, wire, log>>

ObserveDone ==
    /\ r.pc = "decrypted"
    /\ r' = Idle
    /\ UNCHANGED <<impl, s, wire, log>>

ChatInit ==
    /\ impl = 2
    /\ s = [pc |-> "chat", message |-> <<>>, chat |-> <<>>,
            publicKey |-> <<>>, sendersPublicKey |-> <<>>,
            channel |-> "null"]
    /\ wire = [text |-> <<>>, count |-> 0]
    /\ r = Idle /\ log = {}

ChatNext ==
    \/ SetMessage \/ SetKeys \/ ChannelChange \/ SendMessage
    \/ Observe \/ ObserveDone

ChatSpec == ChatInit /\ [][ChatNext]_vars

(***************************************************************************)
(* C21.  Confidentiality: who holds the package and both public keys but   *)
(* the private key of neither A nor B derives another secret than theirs   *)
(* and obtains no plaintext of the package: not the envelope, not the      *)
(* message.                                                                *)
(***************************************************************************)
Outsider ==
    /\ IsValidPrivateKey(KeyNumber(r.receiverPrivateKey))
    /\ KeyNumber(r.receiverPrivateKey) # KeyNumber(s.senderPrivateKey)
    /\ getPublicKey(KeyNumber(r.receiverPrivateKey))
          # KeyNumber(s.receiverPublicKey)
    /\ KeyNumber(r.senderPublicKey)
          \in {KeyNumber(s.senderPublicKey), KeyNumber(s.receiverPublicKey)}

C21_Confidentiality ==
    (/\ Untampered /\ HonestSend
     /\ r.pc # "idle" /\ r.encryptedPackage = s.encryptedPackage
     /\ Outsider)
        => /\ "sharedSecret" \in DOMAIN r => r.sharedSecret # s.sharedSecret
           /\ "signedPackage" \in DOMAIN r
                 => /\ r.signedPackage # s.signedPackage
                    /\ ~HasField(r.signedPackage, "message")
           /\ "message" \in DOMAIN r => r.message = Undef
           /\ Returned => r.result.message = Null

(* an outsider has run the decryption on A's package for B and holds a     *)
(* text that is not the envelope                                           *)
C21_Witness ==
    /\ Untampered /\ HonestSend /\ s.message = Str("hi")
    /\ r.pc = "decrypted" /\ r.encryptedPackage = s.encryptedPackage
    /\ Outsider
    /\ r.signedPackage # s.signedPackage

(***************************************************************************)
(* C22.  main.js round trip: the payload that A's encrypt made for B       *)
(* (A's private key, B's public key) is decrypted by B (B's private key,   *)
(* A's public key) to the message that went in.                            *)
(***************************************************************************)
GcmPairs ==
    /\ s.pc = "encrypted" /\ s.result.ok
    /\ r.pc = "decrypted" /\ r.payload = s.result.val
    /\ r.privKeyPem.kind = "private" /\ IsValidPrivateKey(r.privKeyPem.n)
    /\ getPublicKey(r.privKeyPem.n) = s.pubKeyPem.n
    /\ r.pubKeyPem = Pem("public", getPublicKey(s.privKeyPem.n))

C22_GcmRoundTrip == GcmPairs => r.result = Ok(s.message)

(* B has decrypted a non-empty message of another party A *)
C22_Witness ==
    /\ GcmPairs /\ s.privKeyPem.n # r.privKeyPem.n
    /\ s.message = Str("hi") /\ r.result = Ok(Str("hi"))

(***************************************************************************)
(* C23.  decryptValue raises an error, and returns no value, when its      *)
(* sender public key is not the one encryptValue was given, or when its    *)
(* input is no ciphertext of encryptValue.                                 *)
(***************************************************************************)
ValKeyMismatch ==
    /\ s.pc = "encrypted" /\ s.result.ok
    /\ r.ciphertext = s.result.val
    /\ r.senderPublicKey # s.senderPublicKey
    /\ r.receiverPublicKey = s.receiverPublicKey

C23_DecryptValueRaises ==
    (r.pc = "decrypted" /\ (ValKeyMismatch \/ r.ciphertext = BadCiphertext))
        => ~r.result.ok

(***************************************************************************)
(* C24.  Whenever receive returns verified = true, the from field of the   *)
(* result is the encoding of the senderPublicKey argument the signature    *)
(* was verified under: no package is returned as verified under one key    *)
(* while its envelope names another sender.                                *)
(***************************************************************************)
C24_FromIsVerifyingKey ==
    (Returned /\ r.result.verified)
        => r.result.from = SenderField(impl, r.senderPublicKey)[2]

(***************************************************************************)
(* C25.  A ciphertext of encryptValue is decrypted only by the holder of   *)
(* a secret: a party that has the ciphertext and the two public keys,      *)
(* which travel in clear, does not come to the plaintext.  Every argument  *)
(* of the reader's decryptValue call is taken from the channel or is a     *)
(* public key.                                                             *)
(***************************************************************************)
C25_SecretNeeded ==
    r.pc = "decrypted" => ~(r.result.ok /\ HasField(r.result.val, "text"))

(***************************************************************************)
(* C26.  When the own and the peer's public key are both available, the    *)
(* object sendMessage gives to the data channel holds the encrypted        *)
(* payload and the sender's public key only, never the text.               *)
(***************************************************************************)
C26_EncryptedWhenKeysKnown ==
    [][(/\ SendMessage
        /\ s.publicKey # <<>> /\ s.sendersPublicKey # <<>>
        /\ wire'.count # wire.count)
          => /\ ~HasField(wire'.text, "text")
             /\ HasField(wire'.text, "encryptedPayload")
             /\ HasField(wire'.text, "publicKey")]_vars

(***************************************************************************)
(* C27.  sendMessage appends the line You: <message> and clears the input  *)
(* only when dataChannel.send has taken the string; when there is no       *)
(* channel or it is not open, when the trimmed message is empty, or when   *)
(* send throws, nothing is sent and chat and input stay as they are.       *)
(***************************************************************************)
C27_AppendOnlyAfterSend ==
    [][SendMessage =>
          LET sendable == s.channel = "open" /\ trim(s.message) # <<>>
          IN  /\ ~sendable => wire' = wire /\ s' = s
              /\ wire'.count = wire.count => wire' = wire /\ s' = s
              /\ wire'.count # wire.count =>
                    /\ sendable
                    /\ wire'.count = wire.count + 1
                    /\ s'.chat = Append(s.chat, YouLine(trim(s.message)))
                    /\ s'.message = <<>>
                    /\ s'.publicKey = s.publicKey
                    /\ s'.sendersPublicKey = s.sendersPublicKey
                    /\ s'.channel = s.channel]_vars

(* one message went out: its line is in the chat and the input is empty;   *)
(* a later attempt on the closed channel left both as they were            *)
C27_Witness ==
    /\ wire.count = 1 /\ s.chat = <<YouLine(<<"h">>)>>
    /\ s.message = <<>>
    /\ LogEntry("sendMessage", "Alert", Str(<<"Cannot send message">>)) \in log

====
